---- MODULE Spec2Model ----
(***************************************************************************)
(* Mp4Frag (src/index.js): the incremental fMP4 box parser / segmenter.    *)
(* One instance, fed chunks by _transform and reset by _flush.  Buffers    *)
(* are sequences of bytes, a deleted or never-set field is None, a set one *)
(* is Some(v).  A thrown Error is the field thrown of the instance record: *)
(* once set, every enclosing call returns at once, as a JavaScript throw   *)
(* unwinds the stack.                                                      *)
(***************************************************************************)
EXTENDS Integers, Sequences, FiniteSets, TLC

\* ------------------------------------------------------------------ bounds

\* Media segments of the input stream.
MaxSegs == 3
\* Flushes (session restarts) in one behaviour.
MaxFlush == 1
\* Chunks of injected corruption in one session.
MaxGarbage == 1
\* Zero-length chunks written in one session.
MaxEmpty == 1
\* Milliseconds the wall clock advances in one behaviour.
MaxTicks == 1
\* Date.now() at construction (any positive instant).
Epoch == 1

\* ------------------------------------------------------------ JS values

None == <<>>
Some(v) == <<v>>
IsDef(o) == o /= None
Val(o) == o[1]

Min(a, b) == IF a < b THEN a ELSE b

\* ASCII codes of the four-character tags the source compares byte by byte.
Tag_ftyp == <<102, 116, 121, 112>>
Tag_moov == <<109, 111, 111, 118>>
Tag_moof == <<109, 111, 111, 102>>
Tag_mdat == <<109, 100, 97, 116>>
Tag_avcC == <<97, 118, 99, 67>>
Tag_mp4a == <<109, 112, 52, 97>>

\* buf.readUInt32BE(0): big-endian unsigned 32 bit, for a buffer of >= 4 bytes.
readUInt32BE(buf) == ((buf[1] * 256 + buf[2]) * 256 + buf[3]) * 256 + buf[4]

\* buf.slice(start, end): both ends clamped to the buffer, no copy.
slice(buf, start, end) == SubSeq(buf, Min(start, Len(buf)) + 1, Min(end, Len(buf)))

\* buf.slice(start): to the end of the buffer.
sliceFrom(buf, start) == slice(buf, start, Len(buf))

\* buf.indexOf(tag): 0-based index of the first occurrence, -1 when absent.
indexOf(buf, tag) ==
    LET hits == {i \in 0..(Len(buf) - Len(tag)) : SubSeq(buf, i + 1, i + Len(tag)) = tag}
    IN  IF hits = {} THEN -1 ELSE CHOOSE i \in hits : \A j \in hits : i <= j

RECURSIVE Flatten(_)
\* The bytes of a list of buffers, in order.
Flatten(list) == IF list = <<>> THEN <<>> ELSE Head(list) \o Flatten(Tail(list))

\* Buffer.concat(list, totalLength): the bytes of the list, cut to totalLength or
\* zero-filled up to it.
concat(list, totalLength) ==
    LET all == Flatten(list)
    IN  IF Len(all) >= totalLength THEN SubSeq(all, 1, totalLength)
        ELSE all \o [i \in 1..(totalLength - Len(all)) |-> 0]

\* The chunk does not start with a box header of the given type
\* (chunkLength < 8 || chunk[4..7] !== tag).
NotHeader(chunk, tag) == Len(chunk) < 8 \/ SubSeq(chunk, 5, 8) /= tag

Digit(d) == <<"0", "1", "2", "3", "4", "5", "6", "7", "8", "9">>[d + 1]

RECURSIVE String(_)
\* String(n) for n >= 0: its decimal digits, one character each.
String(n) == IF n < 10 THEN <<Digit(n)>> ELSE String(n \div 10) \o <<Digit(n % 10)>>

\* Mutant: the hex string is left in lower case (no toUpperCase()).
HexDigit_lower(d) == <<"0", "1", "2", "3", "4", "5", "6", "7", "8", "9", "a", "b", "c", "d", "e", "f">>[d + 1]

HexDigit(d) == <<"0", "1", "2", "3", "4", "5", "6", "7", "8", "9", "A", "B", "C", "D", "E", "F">>[d + 1]

RECURSIVE HexUpper(_)
\* buf.toString('hex').toUpperCase(): two hex characters per byte.
HexUpper(buf) ==
    IF buf = <<>> THEN <<>>
    ELSE <<HexDigit(Head(buf) \div 16), HexDigit(Head(buf) % 16)>> \o HexUpper(Tail(buf))

\* (ms / 1000).toFixed(6): durations are kept as the integer number of
\* milliseconds that the source divides by 1000.
toFixed6(ms) ==
    String(ms \div 1000) \o <<".">>
        \o <<Digit((ms % 1000) \div 100), Digit((ms % 100) \div 10), Digit(ms % 10)>>
        \o <<"0", "0", "0">>

\* Math.round(ms / 1000).
round(ms) == (ms + 500) \div 1000

\* ------------------------------------------------------------ the instance

\* throw new Error(message): recorded on the instance, unwinds every caller.
Throw(self, message) == [self EXCEPT !.thrown = message]

Threw(self) == self.thrown /= "none"

\* Date.now(): the wall clock, in milliseconds.
Date_now(self) == self.now

\* parseInt clamped as the constructor clamps hlsListSize (None is NaN).
ClampHlsListSize(hlsListSize) ==
    IF ~IsDef(hlsListSize) THEN 4
    ELSE IF Val(hlsListSize) < 2 THEN 2
    ELSE IF Val(hlsListSize) > 10 THEN 10
    ELSE Val(hlsListSize)

\* parseInt clamped as the constructor clamps bufferListSize (None is NaN).
ClampBufferListSize(bufferListSize) ==
    IF ~IsDef(bufferListSize) \/ Val(bufferListSize) < 2 THEN 2
    ELSE IF Val(bufferListSize) > 10 THEN 10
    ELSE Val(bufferListSize)

\* new Mp4Frag(options, callback), with the listeners and pipes attached to it
\* and the clock reading at construction.  options is None or Some(record);
\* options.hlsBase is "" when absent or empty; the two list sizes are the
\* results of parseInt (None is NaN).
constructor(options, callback, listeners, pipesCount, t) ==
    LET hls == IsDef(options) /\ Val(options).hlsBase /= ""
        buf == IsDef(options) /\ Val(options).hasBufferListSize
    IN  [ _callback |-> callback,
          _parseChunk |-> "_findFtyp",
          _hlsListSize |-> IF hls THEN Some(ClampHlsListSize(Val(options).hlsListSize)) ELSE None,
          _hlsList |-> IF hls THEN Some(<<>>) ELSE None,
          _hlsBase |-> IF hls THEN Some(Val(options).hlsBase) ELSE None,
          _sequence |-> IF hls THEN Some(0) ELSE None,
          _bufferListSize |-> IF buf THEN Some(ClampBufferListSize(Val(options).bufferListSize)) ELSE None,
          _bufferList |-> IF buf THEN Some(<<>>) ELSE None,
          _mime |-> None, _initialization |-> None, _segment |-> None,
          _timestamp |-> None, _duration |-> None, _m3u8 |-> None,
          _ftyp |-> None, _ftypLength |-> None,
          _moof |-> None, _moofLength |-> None,
          _mdatBuffer |-> None, _mdatLength |-> None, _mdatBufferSize |-> None,
          \* the environment of the instance
          listeners |-> listeners, pipesCount |-> pipesCount, now |-> t,
          \* what it has done in this session: the observable steps in order,
          \* the segments handed to _setSegment, what the callback and the
          \* 'segment' listeners found when they were called, the Error thrown
          \* (started: the clock reading when 'initialized' was emitted)
          emitted |-> <<>>, published |-> <<>>, seen |-> <<>>, started |-> None,
          thrown |-> "none" ]

\* ------------------------------------------------------------ accessors

mime(self) == self._mime
initialization(self) == self._initialization
segment(self) == self._segment
\* this._timestamp || -1
timestamp(self) == IF IsDef(self._timestamp) /\ Val(self._timestamp) /= 0 THEN Val(self._timestamp) ELSE -1
\* this._duration || -1 (in milliseconds; -1 is the sentinel)
duration(self) == IF IsDef(self._duration) /\ Val(self._duration) /= 0 THEN Val(self._duration) ELSE -1
m3u8(self) == self._m3u8
\* this._sequence || -1
sequence(self) == IF IsDef(self._sequence) /\ Val(self._sequence) /= 0 THEN Val(self._sequence) ELSE -1

bufferList(self) ==
    IF IsDef(self._bufferList) /\ Len(Val(self._bufferList)) > 0 THEN self._bufferList ELSE None

bufferListConcat(self) ==
    IF IsDef(self._bufferList) /\ Len(Val(self._bufferList)) > 0
    THEN Some(Flatten(Val(self._bufferList))) ELSE None

bufferConcat(self) ==
    IF IsDef(self._initialization) /\ IsDef(self._bufferList) /\ Len(Val(self._bufferList)) > 0
    THEN Some(Flatten(<<Val(self._initialization)>> \o Val(self._bufferList))) ELSE None

\* A JavaScript value handed to getHlsSegment: a string (its characters) or a number.
JsString(chars) == [type |-> "string", chars |-> chars, number |-> 0]
JsNumber(n) == [type |-> "number", chars |-> <<>>, number |-> n]
\* Truthiness: a non-empty string, a non-zero number.
Truthy(v) == IF v.type = "string" THEN v.chars /= <<>> ELSE v.number /= 0

\* Mutant: the argument is tested as a number, so "0" is falsy.
getHlsSegment_falsyZero(self, seq) ==
    IF Truthy(seq) /\ seq.chars /= <<"0">> /\ IsDef(self._hlsList) /\ Len(Val(self._hlsList)) > 0
    THEN LET list == Val(self._hlsList)
             hits == {i \in 1..Len(list) : seq.type = "string" /\ list[i].sequence = seq.chars}
         IN  IF hits = {} THEN None
             ELSE Some(list[CHOOSE i \in hits : \A j \in hits : i <= j].segment)
    ELSE None

\* getHlsSegment(sequence): the first ring entry whose sequence === the argument
\* (entries hold strings, so a number never matches), else null.
getHlsSegment(self, seq) ==
    IF Truthy(seq) /\ IsDef(self._hlsList) /\ Len(Val(self._hlsList)) > 0
    THEN LET list == Val(self._hlsList)
             hits == {i \in 1..Len(list) : seq.type = "string" /\ list[i].sequence = seq.chars}
         IN  IF hits = {} THEN None
             ELSE Some(list[CHOOSE i \in hits : \A j \in hits : i <= j].segment)
    ELSE None

\* ------------------------------------------------------------ the parser

\* One observable step: an emit, a push to the piped consumers, a callback call.
Step(ev, bytes) == [ev |-> ev, segment |-> bytes]

\* The playlist lines both generators start with; each line is a sequence of
\* string pieces.
M3u8Head(self, targetDuration, mediaSequence) ==
    << <<"#EXTM3U">>,
       <<"#EXT-X-VERSION:7">>,
       <<"#EXT-X-ALLOW-CACHE:NO">>,
       <<"#EXT-X-TARGETDURATION:">> \o targetDuration,
       <<"#EXT-X-MEDIA-SEQUENCE:">> \o mediaSequence,
       <<"#EXT-X-MAP:URI=\"init-", Val(self._hlsBase), ".mp4\"">> >>

RECURSIVE M3u8Entries(_, _)
\* The two lines of each ring entry, in ring order.
M3u8Entries(self, list) ==
    IF list = <<>> THEN <<>>
    ELSE << <<"#EXTINF:">> \o toFixed6(Head(list).duration) \o <<",">>,
            <<Val(self._hlsBase)>> \o Head(list).sequence \o <<".m4s">> >>
         \o M3u8Entries(self, Tail(list))

RECURSIVE Shift_late(_, _)
\* Mutant: the eviction loop stops one entry too late (length > size + 1).
Shift_late(list, size) == IF Len(list) > size + 1 THEN Shift_late(Tail(list), size) ELSE list

RECURSIVE Shift(_, _)
\* while (list.length > size) list.shift()
Shift(list, size) == IF Len(list) > size THEN Shift(Tail(list), size) ELSE list

\* _parseMoov(value) up to, not including, its emit: keep the init blob, build
\* the mime string, stamp the time, write the empty playlist.
ParseInit(self, value) ==
    LET s1 == [self EXCEPT !._initialization = Some(value)]
        audioString == IF indexOf(value, Tag_mp4a) /= -1 THEN <<", mp4a.40.2">> ELSE <<>>
        index == indexOf(value, Tag_avcC)
        codec == HexUpper(slice(value, index + 5, index + 8))
        s2 == [s1 EXCEPT
                 !._mime = Some(<<"video/mp4; codecs=\"avc1.">> \o codec \o audioString \o <<"\"">>),
                 !._timestamp = Some(Date_now(self))]
    IN  IF index = -1 THEN Throw(s1, "moov does not contain codec information")
        ELSE IF IsDef(s2._hlsList)
        THEN [s2 EXCEPT !._m3u8 = Some(M3u8Head(s2, <<"0">>, <<"0">>))]
        ELSE s2

\* Mutant: the init blob is parsed but 'initialized' is never emitted.
_parseMoov_silent(self, value) == ParseInit(self, value)

\* _parseMoov(value): parse, then this.emit('initialized').
_parseMoov(self, value) ==
    LET s == ParseInit(self, value)
    IN  IF Threw(s) THEN s
        ELSE [s EXCEPT !.emitted = Append(@, Step("initialized", <<>>)),
                       !.started = Some(Date_now(s))]

\* _setSegment, step 1: the latest-segment fields.
SetLatest(self, chunk) ==
    LET currentTime == Date_now(self)
    IN  [self EXCEPT !._segment = Some(chunk),
                     !._duration = Some(currentTime - Val(self._timestamp)),
                     !._timestamp = Some(currentTime)]

\* Mutant: MEDIA-SEQUENCE is taken from the newest ring entry, not the oldest.
Playlist_newest(self, hlsList) ==
    M3u8Head(self, String(round(Val(self._duration))), hlsList[Len(hlsList)].sequence)
        \o M3u8Entries(self, hlsList)

\* The playlist text after a segment.
Playlist(self, hlsList) ==
    M3u8Head(self, String(round(Val(self._duration))), hlsList[1].sequence)
        \o M3u8Entries(self, hlsList)

\* Mutant: the counter is incremented before it is read (String(++this._sequence)).
HlsEntry_preIncrement(self) ==
    [sequence |-> String(Val(self._sequence) + 1), segment |-> Val(self._segment),
     duration |-> Val(self._duration)]

\* The ring entry for the latest segment: {sequence: String(this._sequence++), ...}
\* (the increment itself is in HlsRing).
HlsEntry(self) ==
    [sequence |-> String(Val(self._sequence)), segment |-> Val(self._segment),
     duration |-> Val(self._duration)]

\* _setSegment, step 2: the HLS ring and the playlist, when HLS is enabled.
\* published records what was handed over, with the sequence it was given.
HlsRing(self) ==
    LET pushed == HlsEntry(self)
        hlsList == Shift(Append(Val(self._hlsList), pushed), Val(self._hlsListSize))
    IN  IF IsDef(self._hlsList)
        THEN [self EXCEPT !._hlsList = Some(hlsList),
                          !._sequence = Some(Val(@) + 1),
                          !._m3u8 = Some(Playlist(self, hlsList)),
                          !.published = Append(@, [segment |-> Val(self._segment),
                                                   sequence |-> Some(pushed.sequence),
                                                   at |-> Date_now(self)])]
        ELSE [self EXCEPT !.published = Append(@, [segment |-> Val(self._segment),
                                                   sequence |-> None,
                                                   at |-> Date_now(self)])]

\* Mutant: the buffer ring is fed inside the HLS block, so only when HLS is
\* enabled too.
BufferRing_insideHls(self) ==
    IF IsDef(self._bufferList) /\ IsDef(self._hlsList)
    THEN [self EXCEPT !._bufferList =
              Some(Shift(Append(Val(@), Val(self._segment)), Val(self._bufferListSize)))]
    ELSE self

\* _setSegment, step 3: the buffer ring, when buffering is enabled.
BufferRing(self) ==
    IF IsDef(self._bufferList)
    THEN [self EXCEPT !._bufferList =
              Some(Shift(Append(Val(@), Val(self._segment)), Val(self._bufferListSize)))]
    ELSE self

\* What code called by the instance (the callback, a 'segment' listener) reads
\* from it at the moment of the call.
Observed(self, ev) ==
    [ev |-> ev, segment |-> segment(self), sequence |-> sequence(self),
     hlsList |-> self._hlsList, m3u8 |-> m3u8(self), bufferList |-> bufferList(self)]

\* _setSegment, step 4: push to the piped consumers, the callback, the event.
Notify(self) ==
    LET s1 == IF self.pipesCount > 0
              THEN [self EXCEPT !.emitted = Append(@, Step("push", Val(self._segment)))]
              ELSE self
        s2 == IF s1._callback
              THEN [s1 EXCEPT !.emitted = Append(@, Step("callback", Val(s1._segment))),
                              !.seen = Append(@, Observed(s1, "callback"))]
              ELSE s1
    IN  IF s2.listeners > 0
        THEN [s2 EXCEPT !.emitted = Append(@, Step("segment", Val(s2._segment))),
                        !.seen = Append(@, Observed(s2, "segment"))]
        ELSE s2

\* Mutant: the consumers are notified right after the latest-segment fields are
\* set, before the rings and the playlist are updated.
_setSegment_notifyFirst(self, chunk) == BufferRing(HlsRing(Notify(SetLatest(self, chunk))))

\* _setSegment(chunk): the publisher.
_setSegment(self, chunk) == Notify(BufferRing(HlsRing(SetLatest(self, chunk))))

RECURSIVE _findMoof(_, _), _findMdat(_, _)

\* Mutant: the chunk is re-fed from the marker itself, not from the four length
\* bytes before it (chunk.slice(index)).
_moofHunt_fromMarker(self, chunk) ==
    LET index == indexOf(chunk, Tag_moof)
    IN  IF index > 3
        THEN _findMoof([self EXCEPT !._parseChunk = "_findMoof"], sliceFrom(chunk, index))
        ELSE self

\* _moofHunt(chunk): look for 'moof' after a miss.
_moofHunt(self, chunk) ==
    LET index == indexOf(chunk, Tag_moof)
    IN  IF index > 3
        THEN _findMoof([self EXCEPT !._parseChunk = "_findMoof"], sliceFrom(chunk, index - 4))
        ELSE self

\* Mutant: the miss is always hunted, whether or not a segment was published
\* (no if (!this._segment) throw).
_findMoof_alwaysHunt(self, chunk) ==
    LET chunkLength == Len(chunk)
        s1 == IF NotHeader(chunk, Tag_moof)
              THEN _moofHunt([self EXCEPT !._parseChunk = "_moofHunt"], chunk)
              ELSE self
        moofLength == readUInt32BE(chunk)
        s2 == [s1 EXCEPT !._moofLength = Some(moofLength)]
    IN  IF Threw(s1) THEN s1
        ELSE IF chunkLength < 4 THEN Throw(s1, "RangeError: out of range")
        ELSE IF moofLength < chunkLength
        THEN _findMdat([s2 EXCEPT !._moof = Some(slice(chunk, 0, moofLength)),
                                  !._parseChunk = "_findMdat"],
                       sliceFrom(chunk, moofLength))
        ELSE IF moofLength = chunkLength
        THEN [s2 EXCEPT !._moof = Some(chunk), !._parseChunk = "_findMdat"]
        ELSE Throw(s2, "mooflength > chunklength")

\* _findMoof(chunk).  After the hunt branch the source does not return: it goes
\* on to read the length of the very chunk it rejected.  readUInt32BE throws a
\* RangeError on a buffer of fewer than 4 bytes (node >= 10, package.json).
_findMoof(self, chunk) ==
    LET chunkLength == Len(chunk)
        s1 == IF NotHeader(chunk, Tag_moof)
              THEN IF ~IsDef(self._segment)
                   THEN Throw(self, "immediately failed to find moof")
                   ELSE _moofHunt([self EXCEPT !._parseChunk = "_moofHunt"], chunk)
              ELSE self
        moofLength == readUInt32BE(chunk)
        s2 == [s1 EXCEPT !._moofLength = Some(moofLength)]
    IN  IF Threw(s1) THEN s1
        ELSE IF chunkLength < 4 THEN Throw(s1, "RangeError: out of range")
        ELSE IF moofLength < chunkLength
        THEN _findMdat([s2 EXCEPT !._moof = Some(slice(chunk, 0, moofLength)),
                                  !._parseChunk = "_findMdat"],
                       sliceFrom(chunk, moofLength))
        ELSE IF moofLength = chunkLength
        THEN [s2 EXCEPT !._moof = Some(chunk), !._parseChunk = "_findMdat"]
        ELSE Throw(s2, "mooflength > chunklength")

\* _findMdat(chunk).
_findMdat(self, chunk) ==
    IF IsDef(self._mdatBuffer)
    THEN LET s1 == [self EXCEPT !._mdatBuffer = Some(Append(Val(@), chunk)),
                                !._mdatBufferSize = Some(Val(@) + Len(chunk))]
             seg == concat(<<Val(s1._moof)>> \o Val(s1._mdatBuffer),
                           Val(s1._moofLength) + Val(s1._mdatLength))
             sliceIndex == Val(s1._mdatBufferSize) - Val(s1._mdatLength)
             s2 == _setSegment(s1, seg)
             s3 == [s2 EXCEPT !._moof = None, !._mdatBuffer = None, !._moofLength = None,
                              !._mdatLength = None, !._mdatBufferSize = None,
                              !._parseChunk = "_findMoof"]
         IN  IF Val(s1._mdatLength) = Val(s1._mdatBufferSize) THEN s3
             ELSE IF Val(s1._mdatLength) < Val(s1._mdatBufferSize)
             THEN _findMoof(s3, sliceFrom(chunk, sliceIndex))
             ELSE s1
    ELSE LET chunkLength == Len(chunk)
             mdatLength == readUInt32BE(chunk)
             s1 == [self EXCEPT !._mdatLength = Some(mdatLength)]
             s2 == _setSegment(s1, concat(<<Val(s1._moof), chunk>>,
                                          Val(s1._moofLength) + chunkLength))
         IN  IF NotHeader(chunk, Tag_mdat) THEN Throw(self, "cannot find mdat")
             ELSE IF mdatLength > chunkLength
             THEN [s1 EXCEPT !._mdatBuffer = Some(<<chunk>>),
                             !._mdatBufferSize = Some(chunkLength)]
             ELSE IF mdatLength = chunkLength
             THEN [s2 EXCEPT !._moof = None, !._moofLength = None, !._mdatLength = None,
                             !._parseChunk = "_findMoof"]
             ELSE Throw(s1, "mdatLength less than chunkLength")

\* _findMoov(chunk).
_findMoov(self, chunk) ==
    LET chunkLength == Len(chunk)
        moovLength == readUInt32BE(chunk)
        s1 == _parseMoov(self, concat(<<Val(self._ftyp), chunk>>,
                                      Val(self._ftypLength) + moovLength))
        s2 == [s1 EXCEPT !._ftyp = None, !._ftypLength = None, !._parseChunk = "_findMoof"]
    IN  IF NotHeader(chunk, Tag_moov) THEN Throw(self, "cannot find moov")
        ELSE IF moovLength < chunkLength
        THEN IF Threw(s1) THEN s1 ELSE _findMoof(s2, sliceFrom(chunk, moovLength))
        ELSE IF moovLength = chunkLength
        THEN IF Threw(s1) THEN s1 ELSE s2
        ELSE Throw(self, "moovLength greater than chunkLength")

\* _findFtyp(chunk).
_findFtyp(self, chunk) ==
    LET chunkLength == Len(chunk)
        ftypLength == readUInt32BE(chunk)
        s1 == [self EXCEPT !._ftypLength = Some(ftypLength)]
    IN  IF NotHeader(chunk, Tag_ftyp) THEN Throw(self, "cannot find ftyp")
        ELSE IF ftypLength < chunkLength
        THEN _findMoov([s1 EXCEPT !._ftyp = Some(slice(chunk, 0, ftypLength)),
                                  !._parseChunk = "_findMoov"],
                       sliceFrom(chunk, ftypLength))
        ELSE IF ftypLength = chunkLength
        THEN [s1 EXCEPT !._ftyp = Some(chunk), !._parseChunk = "_findMoov"]
        ELSE Throw(s1, "ftypLength greater than chunkLength")

\* _transform(chunk, encoding, callback): this._parseChunk(chunk).
_transform(self, chunk) ==
    CASE self._parseChunk = "_findFtyp" -> _findFtyp(self, chunk)
      [] self._parseChunk = "_findMoov" -> _findMoov(self, chunk)
      [] self._parseChunk = "_findMoof" -> _findMoof(self, chunk)
      [] self._parseChunk = "_findMdat" -> _findMdat(self, chunk)
      [] self._parseChunk = "_moofHunt" -> _moofHunt(self, chunk)

\* Mutant: the reset forgets the latest segment (no delete this._segment).
_flush_keepsSegment(self) ==
    [self EXCEPT !._parseChunk = "_findFtyp",
                 !._mime = None, !._initialization = None,
                 !._timestamp = None, !._duration = None,
                 !._moof = None, !._mdatBuffer = None, !._moofLength = None,
                 !._mdatLength = None, !._mdatBufferSize = None,
                 !._ftyp = None, !._ftypLength = None, !._m3u8 = None,
                 !._hlsList = IF IsDef(@) THEN Some(<<>>) ELSE @,
                 !._sequence = IF IsDef(self._hlsList) THEN Some(0) ELSE @,
                 !._bufferList = IF IsDef(@) THEN Some(<<>>) ELSE @]

\* _flush(callback): the reset.
_flush(self) ==
    [self EXCEPT !._parseChunk = "_findFtyp",
                 !._mime = None, !._initialization = None, !._segment = None,
                 !._timestamp = None, !._duration = None,
                 !._moof = None, !._mdatBuffer = None, !._moofLength = None,
                 !._mdatLength = None, !._mdatBufferSize = None,
                 !._ftyp = None, !._ftypLength = None, !._m3u8 = None,
                 !._hlsList = IF IsDef(@) THEN Some(<<>>) ELSE @,
                 !._sequence = IF IsDef(self._hlsList) THEN Some(0) ELSE @,
                 !._bufferList = IF IsDef(@) THEN Some(<<>>) ELSE @]

\* ------------------------------------------------------------ the input

\* A box: 4 bytes of big-endian length (header included), the tag, the payload.
Box(tag, payload) == <<0, 0, 0, 8 + Len(payload)>> \o tag \o payload

\* 'isom'
Ftyp == Box(Tag_ftyp, <<105, 115, 111, 109>>)

\* The moov of each input stream: the avcC marker, the configuration version and
\* the three bytes 4D 40 1F; with an audio track the mp4a marker too; or no
\* codec information at all.
StreamIds == {"video", "audio", "nocodec"}
Moov(sid) ==
    CASE sid = "video" -> Box(Tag_moov, Tag_avcC \o <<1, 77, 64, 31>>)
      [] sid = "audio" -> Box(Tag_moov, Tag_avcC \o <<1, 77, 64, 31>> \o Tag_mp4a)
      [] sid = "nocodec" -> Box(Tag_moov, <<1, 77, 64, 31>>)

Init_blob(sid) == Ftyp \o Moov(sid)

Moof(k) == Box(Tag_moof, <<>>)
Mdat(k) == Box(Tag_mdat, <<k>>)
\* Media segment k (0-based) of the stream.
Seg(k) == Moof(k) \o Mdat(k)

RECURSIVE Segs(_, _)
\* Segments from..(MaxSegs - 1), concatenated.
Segs(from, to) == IF from > to THEN <<>> ELSE Seg(from) \o Segs(from + 1, to)

\* ftyp, moov, (moof, mdat)*
Stream(sid) == Init_blob(sid) \o Segs(0, MaxSegs - 1)

\* Corrupt bytes: 32 bytes of 'x'; 8 bytes that read as a box of length 8 and
\* type 'junk'.
Garbage ==
    { [i \in 1..32 |-> 120],
      <<0, 0, 0, 8, 106, 117, 110, 107>> }

\* The constructions checked: options, callback, 'segment' listeners, pipes.
Opt(hlsBase, hlsListSize, hasBufferListSize, bufferListSize) ==
    Some([hlsBase |-> hlsBase, hlsListSize |-> hlsListSize,
          hasBufferListSize |-> hasBufferListSize, bufferListSize |-> bufferListSize])

Constructions ==
    { [options |-> None, callback |-> FALSE, listeners |-> 1, pipesCount |-> 0],
      [options |-> Opt("seg", None, FALSE, None), callback |-> TRUE, listeners |-> 1, pipesCount |-> 0],
      [options |-> Opt("seg", Some(1), TRUE, Some(0)), callback |-> TRUE, listeners |-> 1, pipesCount |-> 1],
      [options |-> Opt("seg", Some(3), TRUE, Some(3)), callback |-> TRUE, listeners |-> 0, pipesCount |-> 0],
      [options |-> Opt("seg", Some(11), TRUE, Some(12)), callback |-> FALSE, listeners |-> 1, pipesCount |-> 0],
      [options |-> Opt("", Some(3), TRUE, None), callback |-> FALSE, listeners |-> 1, pipesCount |-> 0] }

\* ------------------------------------------------------------ the state

VARIABLES
    mp4frag,    \* the instance
    made,       \* how it was constructed (an element of Constructions)
    sid,        \* the stream it is fed
    pos,        \* bytes of the stream fed in this session
    flushes,    \* flushes so far
    garbage,    \* corrupt chunks injected in this session
    empties,    \* zero-length chunks written in this session
    last        \* the last operation

vars == <<mp4frag, made, sid, pos, flushes, garbage, empties, last>>

Fresh(c, t) == constructor(c.options, c.callback, c.listeners, c.pipesCount, t)

Op(op, before, g, n) ==
    [op |-> op, before |-> before, garbage |-> g, n |-> n]

Init ==
    /\ made \in Constructions
    /\ sid \in StreamIds
    /\ mp4frag = Fresh(made, Epoch)
    /\ pos = 0
    /\ flushes = 0
    /\ garbage = 0
    /\ empties = 0
    /\ last = Op("constructor", mp4frag, <<>>, 0)

\* write(chunk): the next n bytes of the stream, after corrupt bytes g or none.
\* A write that threw ends the session: no later chunk reaches _transform.
Write(g, n) ==
    /\ ~Threw(mp4frag)
    /\ g /= <<>> => garbage < MaxGarbage
    /\ (g = <<>> /\ n = 0) => empties < MaxEmpty
    /\ mp4frag' = _transform(mp4frag, g \o SubSeq(Stream(sid), pos + 1, pos + n))
    /\ pos' = pos + n
    /\ garbage' = IF g /= <<>> THEN garbage + 1 ELSE garbage
    /\ empties' = IF g = <<>> /\ n = 0 THEN empties + 1 ELSE empties
    /\ last' = Op("write", mp4frag, g, n)
    /\ UNCHANGED <<made, sid, flushes>>

\* flush(): _flush, then the same stream is fed again from its start.
Flush ==
    /\ flushes < MaxFlush
    /\ mp4frag' = [_flush(mp4frag) EXCEPT !.emitted = <<>>, !.published = <<>>,
                                          !.seen = <<>>, !.started = None,
                                          !.thrown = "none"]
    /\ pos' = 0
    /\ garbage' = 0
    /\ empties' = 0
    /\ flushes' = flushes + 1
    /\ last' = Op("flush", mp4frag, <<>>, 0)
    /\ UNCHANGED <<made, sid>>

\* The wall clock advances by a millisecond.
Tick ==
    /\ mp4frag.now < Epoch + MaxTicks
    /\ mp4frag' = [mp4frag EXCEPT !.now = @ + 1]
    /\ UNCHANGED <<made, sid, pos, flushes, garbage, empties, last>>

Next ==
    \/ \E g \in Garbage \cup {<<>>}, n \in 0..(Len(Stream(sid)) - pos) : Write(g, n)
    \/ Flush
    \/ Tick

Spec == Init /\ [][Next]_vars

\* The hunt meets a chunk of its own only in an instance whose last write threw
\* while hunting.  write(chunk) by a caller that caught that Error and goes on:
\* _transform runs the handler the failed write left in _parseChunk.
Resume(g, n) ==
    /\ Threw(mp4frag)
    /\ mp4frag._parseChunk = "_moofHunt"
    /\ g /= <<>> => garbage < MaxGarbage
    /\ (g = <<>> /\ n = 0) => empties < MaxEmpty
    /\ mp4frag' = _transform([mp4frag EXCEPT !.thrown = "none"],
                             g \o SubSeq(Stream(sid), pos + 1, pos + n))
    /\ pos' = pos + n
    /\ garbage' = IF g /= <<>> THEN garbage + 1 ELSE garbage
    /\ empties' = IF g = <<>> /\ n = 0 THEN empties + 1 ELSE empties
    /\ last' = Op("write", mp4frag, g, n)
    /\ UNCHANGED <<made, sid, flushes>>

NextResumed ==
    \/ Next
    \/ \E g \in Garbage \cup {<<>>}, n \in 0..(Len(Stream(sid)) - pos) : Resume(g, n)

\* Resumed sessions are followed for the construction with both rings, a pipe,
\* a callback and a listener, fed the stream without an audio track.
InitResumed == Init /\ made.pipesCount > 0 /\ sid = "video"

SpecResumed == InitResumed /\ [][NextResumed]_vars

\* ------------------------------------------------------------ reference

\* The streams the format calls valid: their moov carries the codec information.
ValidStreams == {"video", "audio"}

\* Offset of the end of the mdat of segment k in the stream.
SegEnd(k) == Len(Init_blob(sid)) + Len(Segs(0, k))

\* Offset of the start of the moof of segment k.
SegStart(k) == Len(Init_blob(sid)) + Len(Segs(0, k - 1))

\* Segments wholly inside the first p bytes of the stream.
Complete(p) == Cardinality({k \in 0..(MaxSegs - 1) : SegEnd(k) <= p})

\* The first n segments of the stream.
FirstSegs(n) == [i \in 1..n |-> Seg(i - 1)]

\* The segments the session has published, in publication order.
SegmentsOf(self) == [i \in 1..Len(self.published) |-> self.published[i].segment]

IsEvent(step) == step.ev \in {"initialized", "segment"}
\* The events the session has emitted, in order.
Events(self) == SelectSeq(self.emitted, IsEvent)

\* The events of a session that has initialized and published segs.
ExpectedEvents(segs) ==
    <<Step("initialized", <<>>)>> \o [i \in 1..Len(segs) |-> Step("segment", segs[i])]

\* Only bytes of a valid stream, in non-empty chunks, were written in this session.
Clean == sid \in ValidStreams /\ garbage = 0 /\ empties = 0

HlsEnabled == IsDef(mp4frag._hlsList)

\* The hunt is never where a write starts: _findMoof goes on after its hunt
\* branch and either throws or expects an mdat, and no chunk reaches _transform
\* after a throw.
HuntIsTransient ==
    /\ mp4frag._parseChunk = "_moofHunt" => Threw(mp4frag)
    /\ last.op = "write" => last.before._parseChunk /= "_moofHunt"

\* ------------------------------------------------------------ claims

\* C1: however a valid stream ftyp, moov, (moof, mdat)* is split into write
\* chunks, no write raises an error, and once the whole stream is written the
\* init blob is ftyp+moov, the segments are the moof+mdat pairs of the input,
\* one each and in order, and the events are initialized, then one segment
\* event per pair.
C1_RechunkingInvariance ==
    Clean =>
        /\ ~Threw(mp4frag)
        /\ pos = Len(Stream(sid)) =>
              /\ initialization(mp4frag) = Some(Init_blob(sid))
              /\ SegmentsOf(mp4frag) = FirstSegs(MaxSegs)
              /\ mp4frag.listeners > 0 => Events(mp4frag) = ExpectedEvents(FirstSegs(MaxSegs))

\* C2: at every point of a session fed a valid stream, the init blob followed
\* by the segments published so far is the prefix of the input that ends at
\* the end of the last completely received mdat (nothing is published before
\* the first mdat is complete).
C2_PublishedIsInputPrefix ==
    Clean =>
        IF Complete(pos) = 0 THEN SegmentsOf(mp4frag) = <<>>
        ELSE /\ IsDef(initialization(mp4frag))
             /\ Val(initialization(mp4frag)) \o Flatten(SegmentsOf(mp4frag))
                    = SubSeq(Stream(sid), 1, SegEnd(Complete(pos) - 1))

C4_CorruptionRecovered ==
    ( /\ last.op = "write"
      /\ last.garbage /= <<>>
      /\ last.before._parseChunk = "_findMoof"
      /\ IsDef(last.before._segment)
      /\ sid \in ValidStreams )
    => /\ ~Threw(mp4frag)
       /\ IsDef(mp4frag._moof) => \E k \in 0..(MaxSegs - 1) : Val(mp4frag._moof) = Moof(k)
       /\ \A i \in 1..Len(mp4frag.published) :
             \E k \in 0..(MaxSegs - 1) : mp4frag.published[i].segment = Seg(k)
       /\ \A k \in 0..(MaxSegs - 1) :
             (pos - last.n = SegStart(k) /\ pos = SegEnd(k))
                 => mp4frag.published[Len(mp4frag.published)].segment = Seg(k)

\* C5: with HLS enabled the published segments of a session carry the sequence
\* numbers 0, 1, 2, ... in publication order, without gap or repeat; a session
\* that follows a flush starts again at 0.
C5_SequenceNumbers ==
    HlsEnabled =>
        \A i \in 1..Len(mp4frag.published) :
            mp4frag.published[i].sequence = Some(String(i - 1))

\* C5 witness: HLS enabled, a session after a flush that has published twice.
C5_Witness == HlsEnabled /\ flushes = 1 /\ Len(mp4frag.published) >= 2

\* The bound the options ask for: the configured value clamped to [2, 10], or
\* the default when it is not a number.
ExpectedBound(configured, default) ==
    IF ~IsDef(configured) THEN default
    ELSE IF Val(configured) < 2 THEN 2
    ELSE IF Val(configured) > 10 THEN 10 ELSE Val(configured)

\* The last Min(Len(list), size) elements of list.
LastOf(list, size) ==
    SubSeq(list, Len(list) - Min(Len(list), size) + 1, Len(list))

\* C6: between operations the HLS ring holds at most hlsListSize entries and
\* the buffer ring at most bufferListSize, each bound being the configured
\* value clamped to [2, 10] (HLS default 4); what the rings hold is the latest
\* published segments, so it is the oldest entry that overflow evicts.
C6_RingBounds ==
    /\ HlsEnabled =>
          LET ring == Val(mp4frag._hlsList)
              bound == ExpectedBound(Val(made.options).hlsListSize, 4)
          IN  /\ Val(mp4frag._hlsListSize) = bound
              /\ Len(ring) <= bound
              /\ [i \in 1..Len(ring) |-> ring[i].segment] = LastOf(SegmentsOf(mp4frag), bound)
    /\ IsDef(mp4frag._bufferList) =>
          LET ring == Val(mp4frag._bufferList)
              bound == ExpectedBound(Val(made.options).bufferListSize, 2)
          IN  /\ Val(mp4frag._bufferListSize) = bound
              /\ Len(ring) <= bound
              /\ ring = LastOf(SegmentsOf(mp4frag), bound)

\* C6 witness: both rings are full and have evicted their oldest entry.
C6_Witness ==
    /\ HlsEnabled /\ IsDef(mp4frag._bufferList)
    /\ Len(Val(mp4frag._hlsList)) = Val(mp4frag._hlsListSize)
    /\ Len(Val(mp4frag._bufferList)) = Val(mp4frag._bufferListSize)
    /\ Len(mp4frag.published) > Val(mp4frag._hlsListSize)
    /\ Len(mp4frag.published) > Val(mp4frag._bufferListSize)

\* The sequence a playlist line names when it is a segment URI <hlsBase><n>.m4s.
IsUri(line) == line[1] = Val(mp4frag._hlsBase) /\ line[Len(line)] = ".m4s"
UriSequence(line) == SubSeq(line, 2, Len(line) - 1)
\* The value of the playlist's #EXT-X-MEDIA-SEQUENCE line.
MediaSequence(lines) ==
    Tail(lines[CHOOSE i \in 1..Len(lines) : lines[i][1] = "#EXT-X-MEDIA-SEQUENCE:"])

\* C7: whenever the playlist is non-null, the segment URIs it lists are the
\* sequence numbers held in the HLS ring, in ring order: after n segments with
\* bound b the numbers n - min(n, b) .. n - 1; MEDIA-SEQUENCE is the oldest of
\* them, and 0 with no entry listed between init and the first segment.
C7_PlaylistMatchesRing ==
    IsDef(m3u8(mp4frag)) =>
        LET lines == Val(m3u8(mp4frag))
            ring == Val(mp4frag._hlsList)
            uris == SelectSeq(lines, IsUri)
            n == Len(mp4frag.published)
            held == Min(n, Val(mp4frag._hlsListSize))
        IN  /\ [i \in 1..Len(uris) |-> UriSequence(uris[i])]
                  = [i \in 1..Len(ring) |-> ring[i].sequence]
            /\ [i \in 1..Len(uris) |-> UriSequence(uris[i])]
                  = [i \in 1..held |-> String(n - held + i - 1)]
            /\ MediaSequence(lines) = IF n = 0 THEN <<"0">> ELSE String(n - held)

\* C7 witness: a playlist after the ring has evicted (bound 2, three segments:
\* entries 1, 2 and MEDIA-SEQUENCE:1).
C7_Witness ==
    /\ IsDef(m3u8(mp4frag))
    /\ Len(mp4frag.published) > Val(mp4frag._hlsListSize)
    /\ MediaSequence(Val(m3u8(mp4frag))) = <<"1">>

\* C8: for every k, getHlsSegment(String(k)) returns the bytes published as
\* the segment with sequence k while k is among the last hlsListSize published
\* of the session, and null otherwise: once evicted, before it is published,
\* after a flush, and when HLS is disabled.
C8_GetHlsSegment ==
    \A k \in 0..(MaxSegs + 1) :
        LET n == Len(mp4frag.published)
        IN  getHlsSegment(mp4frag, JsString(String(k))) =
                IF HlsEnabled /\ k < n /\ k >= n - Val(mp4frag._hlsListSize)
                THEN Some(mp4frag.published[k + 1].segment)
                ELSE None

\* C8 witness: sequence 0 is held and returned, with a later one published.
C8_Witness ==
    /\ HlsEnabled
    /\ Len(mp4frag.published) >= 2
    /\ getHlsSegment(mp4frag, JsString(String(0))) = Some(mp4frag.published[1].segment)

\* C9: the sequence accessor returns the sequence number most recently
\* assigned to a published segment (n - 1 after the n-th), and -1 exactly when
\* none has been assigned in the session.
C9_SequenceAccessor ==
    sequence(mp4frag) =
        IF HlsEnabled /\ Len(mp4frag.published) >= 1
        THEN Len(mp4frag.published) - 1
        ELSE -1

\* C10: after flush, from whatever state, the instance is as constructed with
\* the same options: expecting ftyp, no box fragment retained, every accessor
\* at its sentinel, both rings empty, next sequence 0; and flushing again
\* changes nothing.
C10_FlushResets ==
    last.op = "flush" =>
        /\ mp4frag = Fresh(made, mp4frag.now)
        /\ mp4frag._parseChunk = "_findFtyp"
        /\ \A f \in {"_ftyp", "_ftypLength", "_moof", "_moofLength",
                     "_mdatBuffer", "_mdatLength", "_mdatBufferSize"} : mp4frag[f] = None
        /\ mime(mp4frag) = None /\ initialization(mp4frag) = None
        /\ segment(mp4frag) = None /\ m3u8(mp4frag) = None
        /\ timestamp(mp4frag) = -1 /\ duration(mp4frag) = -1 /\ sequence(mp4frag) = -1
        /\ bufferList(mp4frag) = None /\ bufferListConcat(mp4frag) = None
        /\ bufferConcat(mp4frag) = None
        /\ \A k \in 0..MaxSegs : getHlsSegment(mp4frag, JsString(String(k))) = None
        /\ HlsEnabled => mp4frag._hlsList = Some(<<>>) /\ mp4frag._sequence = Some(0)
        /\ IsDef(mp4frag._bufferList) => mp4frag._bufferList = Some(<<>>)
        /\ _flush(mp4frag) = mp4frag

\* C10 witness: a flush in the middle of an mdat, after a segment was published
\* with both rings enabled.
C10_Witness ==
    /\ last.op = "flush"
    /\ IsDef(last.before._mdatBuffer)
    /\ Len(last.before.published) >= 1
    /\ IsDef(last.before._hlsList) /\ IsDef(last.before._bufferList)

\* The chunk of the last write and the instance as that write found it; the
\* clock may have advanced since, so states are compared at the same reading.
LastChunk == last.garbage \o SubSeq(Stream(sid), pos - last.n + 1, pos)
AtWrite(self) == [self EXCEPT !.now = last.before.now]

\* C11: a write of a zero-length chunk is ignored in every assembler state: it
\* raises no error, fires no event and leaves all parser state unchanged.
C11_EmptyWriteIgnored ==
    (last.op = "write" /\ LastChunk = <<>>) => AtWrite(mp4frag) = last.before

\* C12: a write that ends in a fatal error has taken no partial effect: no
\* event was fired during it and no accessor, ring, playlist, retained
\* fragment or expected-box state differs from its value before the write.
C12_NoPartialEffect ==
    (last.op = "write" /\ Threw(mp4frag)) =>
        /\ mp4frag.emitted = last.before.emitted
        /\ [AtWrite(mp4frag) EXCEPT !.thrown = "none"] = last.before

\* C13: a cold start has no hunt.  When no segment has been published in the
\* session (after construction or after a flush) and the chunk arriving in
\* S_MOOF does not start with a moof header, the write fails with
\* 'immediately failed to find moof' and the hunt is not entered; the hunt is
\* entered only in a session that has published a segment.
C13_NoColdHunt ==
    /\ mp4frag._parseChunk = "_moofHunt" => mp4frag.published /= <<>>
    /\ mp4frag.thrown = "immediately failed to find moof" => mp4frag.published = <<>>
    /\ ( /\ last.op = "write"
         /\ last.before._parseChunk = "_findMoof"
         /\ last.before.published = <<>>
         /\ NotHeader(LastChunk, Tag_moof) )
       => /\ mp4frag.thrown = "immediately failed to find moof"
          /\ AtWrite(mp4frag) = Throw(last.before, "immediately failed to find moof")

\* C13 witness: in the session after a flush, corrupt bytes arrive where the
\* first moof is expected and the write fails.
C13_Witness ==
    /\ flushes = 1
    /\ last.op = "write" /\ last.garbage /= <<>>
    /\ last.before._parseChunk = "_findMoof"
    /\ mp4frag.thrown = "immediately failed to find moof"

\* C14: when the init blob is parsed, mime is video/mp4; codecs="avc1.XXXXXX"
\* with XXXXXX the upper-case hex of the three bytes at offsets 5..7 from the
\* avcC marker (4D 40 1F in the input streams), followed by ", mp4a.40.2" iff
\* the marker mp4a occurs in the blob; a blob without the avcC marker makes the
\* write fail with 'moov does not contain codec information' and initialized
\* is not fired.
C14_Mime ==
    IsDef(initialization(mp4frag)) =>
        /\ initialization(mp4frag) = Some(Init_blob(sid))
        /\ sid = "video" =>
              mime(mp4frag) = Some(<<"video/mp4; codecs=\"avc1.", "4", "D", "4", "0", "1", "F", "\"">>)
        /\ sid = "audio" =>
              mime(mp4frag) = Some(<<"video/mp4; codecs=\"avc1.", "4", "D", "4", "0", "1", "F",
                                     ", mp4a.40.2", "\"">>)
        /\ sid = "nocodec" =>
              /\ mime(mp4frag) = None
              /\ mp4frag.thrown = "moov does not contain codec information"
              /\ Events(mp4frag) = <<>>
        /\ sid \in ValidStreams => Events(mp4frag)[1] = Step("initialized", <<>>)

\* C14 witness: the stream with an audio track has been initialized.
C14_Witness ==
    /\ sid = "audio"
    /\ IsDef(mime(mp4frag))
    /\ indexOf(Val(initialization(mp4frag)), Tag_mp4a) /= -1

\* The instance once the segment seg, assembled from the retained moof and the
\* mdat, has been published: the publisher has run, the fragments are dropped
\* and a moof is expected.
Assembled(self, seg) ==
    [_setSegment(self, seg) EXCEPT !._moof = None, !._moofLength = None,
                                   !._mdatBuffer = None, !._mdatLength = None,
                                   !._mdatBufferSize = None, !._parseChunk = "_findMoof"]

\* Bytes the last write's chunk carries beyond the end of the mdat in progress.
Excess == Val(last.before._mdatBufferSize) + Len(LastChunk) - Val(last.before._mdatLength)

\* C15: when an mdat body straddles several chunks and the chunk completing it
\* carries E > 0 bytes beyond the declared mdat length, the published segment
\* is the moof followed by exactly the first mdatLength accumulated bytes, and
\* the bytes re-fed to S_MOOF are exactly the last E bytes of that chunk.
C15_StraddledExcess ==
    ( /\ last.op = "write"
      /\ last.before._parseChunk = "_findMdat"
      /\ IsDef(last.before._mdatBuffer)
      /\ Excess > 0 )
    => LET before == last.before
           seg == Val(before._moof)
                    \o SubSeq(Flatten(Val(before._mdatBuffer)) \o LastChunk,
                              1, Val(before._mdatLength))
           rest == SubSeq(LastChunk, Len(LastChunk) - Excess + 1, Len(LastChunk))
       IN  /\ Len(mp4frag.published) > Len(before.published)
           /\ mp4frag.published[Len(before.published) + 1].segment = seg
           /\ AtWrite(mp4frag) = _findMoof(Assembled(before, seg), rest)

\* C16: when the bytes presented in S_MDAT with no body in progress start with
\* a complete mdat box and continue with further bytes of the same chunk, the
\* moof+mdat segment is published, the assembler moves to S_MOOF and the
\* remaining bytes are re-fed before the write returns; no error is raised
\* for it.
C16_CompleteMdatWithRest ==
    /\ mp4frag.thrown /= "mdatLength less than chunkLength"
    /\ ( /\ last.op = "write"
         /\ last.before._parseChunk = "_findMdat"
         /\ ~IsDef(last.before._mdatBuffer)
         /\ ~NotHeader(LastChunk, Tag_mdat)
         /\ readUInt32BE(LastChunk) < Len(LastChunk) )
       => LET before == last.before
              mdatLength == readUInt32BE(LastChunk)
              seg == Val(before._moof) \o SubSeq(LastChunk, 1, mdatLength)
          IN  /\ Len(mp4frag.published) > Len(before.published)
              /\ mp4frag.published[Len(before.published) + 1].segment = seg
              /\ AtWrite(mp4frag) = _findMoof(Assembled(before, seg),
                                              sliceFrom(LastChunk, mdatLength))

\* C17: a moov box whose body straddles several chunks (a moov header in one
\* chunk, declared length greater than the chunk's length) is tolerated: no
\* error is raised, the assembler keeps expecting the rest of the moov, and
\* once the whole init segment has arrived the init blob is ftyp+moov and
\* initialized has been fired.
C17_MoovStraddle ==
    /\ mp4frag.thrown /= "moovLength greater than chunkLength"
    /\ ( /\ last.op = "write"
         /\ last.before._parseChunk = "_findMoov"
         /\ ~NotHeader(LastChunk, Tag_moov)
         /\ readUInt32BE(LastChunk) > Len(LastChunk) )
       => /\ ~Threw(mp4frag)
          /\ mp4frag._parseChunk = "_findMoov"
          /\ mp4frag.emitted = last.before.emitted

\* b is one complete box of type tag: a header naming the type and a declared
\* length equal to the length of b.
IsBox(b, tag) == ~NotHeader(b, tag) /\ readUInt32BE(b) = Len(b)

\* C18: every published segment, after any sequence of writes (the hunt path
\* included), is one complete moof box followed by one complete mdat box, its
\* length the sum of the two declared lengths; nothing is published while
\* either box is incomplete.
C18_SegmentIsMoofMdat ==
    \A i \in 1..Len(mp4frag.published) :
        LET seg == mp4frag.published[i].segment
        IN  \E m \in 8..(Len(seg) - 8) :
                /\ IsBox(SubSeq(seg, 1, m), Tag_moof)
                /\ IsBox(SubSeq(seg, m + 1, Len(seg)), Tag_mdat)

\* The steps a subscriber can observe for one published segment, in the order
\* the publisher is said to take them.
Notifications(self, seg) ==
    (IF self.pipesCount > 0 THEN <<Step("push", seg)>> ELSE <<>>)
        \o (IF self._callback THEN <<Step("callback", seg)>> ELSE <<>>)
        \o (IF self.listeners > 0 THEN <<Step("segment", seg)>> ELSE <<>>)

\* Calls into subscriber code per published segment: the callback, the event.
CallsPerSegment(self) ==
    (IF self._callback THEN 1 ELSE 0) + (IF self.listeners > 0 THEN 1 ELSE 0)

\* C19: for each published segment the publisher updates the latest-segment
\* accessors, then the HLS ring and the playlist, then the buffer ring, then
\* pushes to the piped consumers, calls the callback and emits the segment
\* event, in that order: whenever the callback or a segment listener runs, the
\* segment and sequence accessors, both rings and the playlist already
\* include that segment, and the callback runs before the event.
C19_PublisherOrder ==
    LET n == Len(mp4frag.published)
        per == CallsPerSegment(mp4frag)
    IN  /\ SelectSeq(mp4frag.emitted, LAMBDA e : e.ev /= "initialized")
              = Flatten([i \in 1..n |-> Notifications(mp4frag, mp4frag.published[i].segment)])
        /\ Len(mp4frag.seen) = n * per
        /\ \A k \in 1..Len(mp4frag.seen) :
              LET o == mp4frag.seen[k]
                  j == ((k - 1) \div per) + 1
                  seg == mp4frag.published[j].segment
              IN  /\ (mp4frag._callback /\ mp4frag.listeners > 0) =>
                         o.ev = IF k % 2 = 1 THEN "callback" ELSE "segment"
                  /\ o.segment = Some(seg)
                  /\ HlsEnabled =>
                         LET ring == Val(o.hlsList)
                             lines == Val(o.m3u8)
                         IN  /\ Len(ring) = Min(j, Val(mp4frag._hlsListSize))
                             /\ ring[Len(ring)].segment = seg
                             /\ ring[Len(ring)].sequence = String(j - 1)
                             /\ o.sequence = j
                             /\ lines[Len(lines)]
                                    = <<Val(mp4frag._hlsBase)>> \o String(j - 1) \o <<".m4s">>
                  /\ IsDef(mp4frag._bufferList) =>
                         /\ Len(Val(o.bufferList)) = Min(j, Val(mp4frag._bufferListSize))
                         /\ Val(o.bufferList)[Len(Val(o.bufferList))] = seg

\* C19 witness: with both rings, a pipe, a callback and a listener, two
\* segments have been published and each was seen by the callback and then by
\* the listener.
C19_Witness ==
    /\ HlsEnabled /\ IsDef(mp4frag._bufferList)
    /\ mp4frag.pipesCount > 0 /\ mp4frag._callback /\ mp4frag.listeners > 0
    /\ Len(mp4frag.seen) >= 4
    /\ mp4frag.seen[3].ev = "callback" /\ mp4frag.seen[4].ev = "segment"

BufferingAsked == IsDef(made.options) /\ Val(made.options).hasBufferListSize

\* C21: with buffering enabled, after n segments published in the session the
\* buffer ring holds exactly the last min(n, bufferListSize) of them in
\* publication order, whether or not HLS is enabled; bufferListConcat is their
\* concatenation and bufferConcat the init blob followed by it; all three are
\* null when the ring is empty or buffering is disabled.
C21_BufferAccessors ==
    LET segs == SegmentsOf(mp4frag)
        held == LastOf(segs, ExpectedBound(Val(made.options).bufferListSize, 2))
    IN  IF BufferingAsked /\ Len(segs) > 0
        THEN /\ bufferList(mp4frag) = Some(held)
             /\ Len(held) = Min(Len(segs), Val(mp4frag._bufferListSize))
             /\ bufferListConcat(mp4frag) = Some(Flatten(held))
             /\ bufferConcat(mp4frag) = Some(Init_blob(sid) \o Flatten(held))
        ELSE /\ bufferList(mp4frag) = None
             /\ bufferListConcat(mp4frag) = None
             /\ bufferConcat(mp4frag) = None

\* C21 witness: buffering without HLS, the ring full and its oldest segment
\* evicted.
C21_Witness ==
    /\ BufferingAsked /\ ~HlsEnabled
    /\ Len(mp4frag.published) > Val(mp4frag._bufferListSize)
    /\ IsDef(bufferConcat(mp4frag))

\* Milliseconds between the completion of the latest published segment and the
\* completion before it, or the initialization when it is the first.
LatestDuration ==
    LET n == Len(mp4frag.published)
    IN  mp4frag.published[n].at
            - (IF n = 1 THEN Val(mp4frag.started) ELSE mp4frag.published[n - 1].at)

\* C22: the duration accessor returns the duration of the latest published
\* segment, its completion instant minus the previous completion or init
\* instant (kept here in milliseconds), and the sentinel -1 only when no
\* segment has been published in the session: a segment completed in the same
\* millisecond as its predecessor reports 0, not -1.
C22_Duration ==
    duration(mp4frag) = IF mp4frag.published = <<>> THEN -1 ELSE LatestDuration

\* 'initialized' has been emitted in the session.
Initialized == \E i \in 1..Len(mp4frag.emitted) : mp4frag.emitted[i].ev = "initialized"

\* C23: in every reachable state the initialization accessor is non-null iff
\* the mime accessor is non-null iff initialized has fired in the session; in
\* particular initialization is still null after a write that failed with
\* 'moov does not contain codec information'.
C23_InitMimeEvent ==
    /\ IsDef(initialization(mp4frag)) <=> IsDef(mime(mp4frag))
    /\ IsDef(mime(mp4frag)) <=> Initialized
    /\ mp4frag.thrown = "moov does not contain codec information"
          => initialization(mp4frag) = None

====
